---- MODULE Spec2Model ----
(***************************************************************************)
(* Argument binding of the REST server (protocol/rest/server/rest_server.go)*)
(* GetRouteFunc resolves the argument types of the target method, binds    *)
(* the request to an argument list with one of two conventions             *)
(* (getArgsInterfaceFromRequest, getArgsFromRequest), invokes the invoker  *)
(* and writes the response.                                                *)
(*                                                                         *)
(* Go strings are sequences of one-character strings, so that the integer  *)
(* parsers of strconv are computed digit by digit.  A Go value held in an  *)
(* interface{} is a record [type, val]: its dynamic type and its content   *)
(* as a sequence of strings.  A Go map is iterated in an unspecified       *)
(* order: each loop is modelled one entry per step, the entry chosen among *)
(* those not visited yet.                                                  *)
(***************************************************************************)
EXTENDS Integers, Sequences, FiniteSets, TLC

\* Largest number of formal parameters of the target method.
MaxArgs == 2

\* Largest number of entries of a MethodConfig (the entries of the three
\* index-to-name mappings plus the body index when it is set).
MaxEntries == 2

\* strconv.IntSize on the 64-bit builds the server runs on.
IntSize == 64

----------------------------------------------------------------------------
(* reflect.Type *)

\* A type is [ptr, base]: base names the type, ptr says whether it is wrapped
\* in one pointer level.
T(base) == [ptr |-> FALSE, base |-> base]

PtrTo(t) == [ptr |-> TRUE, base |-> t.base]

BaseKind(base) ==
    CASE base = "string" -> "String"
      [] base = "int" -> "Int"
      [] base = "int32" -> "Int32"
      [] base = "int64" -> "Int64"
      [] base = "[]string" -> "Slice"
      [] base = "[]interface {}" -> "Slice"
      [] base = "[]map[string]interface {}" -> "Slice"
      [] base = "map[string]interface {}" -> "Map"
      [] base = "interface {}" -> "Interface"
      [] OTHER -> "Struct"

Kind(t) == IF t.ptr THEN "Ptr" ELSE BaseKind(t.base)

Elem(t) == [ptr |-> FALSE, base |-> t.base]

\* t.String() == name
IsNamed(t, name) == ~t.ptr /\ t.base = name

----------------------------------------------------------------------------
(* Values *)

Value(t, v) == [type |-> t, val |-> v]

\* The nil interface value.
Nil == Value(T("nil"), <<>>)

StringValue(s) == Value(T("string"), <<s>>)

\* reflect.Zero(t).Interface()
Zero(t) ==
    CASE Kind(t) = "String" -> Value(t, << <<>> >>)
      [] Kind(t) \in {"Int", "Int32", "Int64"} -> Value(t, << <<"0">> >>)
      [] Kind(t) = "Struct" -> Value(t, << <<>> >>)
      [] Kind(t) = "Interface" -> Nil
      [] OTHER -> Value(t, <<>>)   \* nil pointer, nil slice, nil map

\* reflect.New(t).Interface(): a pointer to a fresh zero instance of t.
New(t) == Value(PtrTo(t), << <<>> >>)

----------------------------------------------------------------------------
(* strconv *)

Digits == <<"0", "1", "2", "3", "4", "5", "6", "7", "8", "9">>

IsDigit(c) == \E i \in 1..10 : Digits[i] = c

DigitVal(c) == (CHOOSE i \in 1..10 : Digits[i] = c) - 1

RECURSIVE StripZeros(_)
StripZeros(ds) ==
    IF Len(ds) > 1 /\ Head(ds) = "0" THEN StripZeros(Tail(ds)) ELSE ds

\* a < b for digit strings without leading zeros
RECURSIVE DigitsLess(_, _)
DigitsLess(a, b) ==
    IF Len(a) # Len(b) THEN Len(a) < Len(b)
    ELSE IF a = <<>> THEN FALSE
    ELSE IF Head(a) # Head(b) THEN DigitVal(Head(a)) < DigitVal(Head(b))
    ELSE DigitsLess(Tail(a), Tail(b))

\* 1 << (bitSize - 1), in decimal
Cutoff(bitSize) ==
    IF bitSize = 32
    THEN <<"2", "1", "4", "7", "4", "8", "3", "6", "4", "8">>
    ELSE <<"9", "2", "2", "3", "3", "7", "2", "0", "3", "6",
           "8", "5", "4", "7", "7", "5", "8", "0", "8">>

\* 1 << (bitSize - 1) - 1, in decimal
MaxVal(bitSize) ==
    IF bitSize = 32
    THEN <<"2", "1", "4", "7", "4", "8", "3", "6", "4", "7">>
    ELSE <<"9", "2", "2", "3", "3", "7", "2", "0", "3", "6",
           "8", "5", "4", "7", "7", "5", "8", "0", "7">>

\* strconv.ParseInt(s, 10, bitSize): [err, num], num the decimal numeral of
\* the result (no leading zeros, "-" in front of a negative number).
ParseInt(s, bitSize) ==
    LET signed == s # <<>> /\ Head(s) \in {"+", "-"}
        neg == s # <<>> /\ Head(s) = "-"
        ds == IF signed THEN Tail(s) ELSE s
        un == StripZeros(ds)
        cutoff == Cutoff(bitSize)
    IN  IF ds = <<>> \/ \E i \in 1..Len(ds) : ~IsDigit(ds[i])
        THEN [err |-> "syntax", num |-> <<"0">>]
        ELSE IF ~neg /\ ~DigitsLess(un, cutoff)
        THEN [err |-> "range", num |-> MaxVal(bitSize)]
        ELSE IF neg /\ DigitsLess(cutoff, un)
        THEN [err |-> "range", num |-> <<"-">> \o cutoff]
        ELSE [err |-> "nil",
              num |-> IF neg /\ un # <<"0">> THEN <<"-">> \o un ELSE un]

\* strconv.Atoi(s)
Atoi(s) == ParseInt(s, IntSize)

----------------------------------------------------------------------------
(* State *)

VARIABLES
    methodConfig,   \* the RestMethodConfig of the route: PathParamsMap,
                    \* QueryParamsMap, HeadersMap (index -> name), Body
    argsTypes,      \* method.ArgsType()
    replyType,      \* method.ReplyType(): "nil" or "some"
    req,            \* the answers of the RestServerRequest
    pc,             \* the position of the route function
    args,           \* the argument list being bound
    todo,           \* the keys the running range loop has not visited yet
    err,            \* the err variable of the running assemble function
    param,          \* the param variable of the running assemble function
    argsMap,        \* getArgsInterfaceFromRequest's argsMap
    maxKey,         \* getArgsInterfaceFromRequest's maxKey
    logs,           \* what was reported to the logger
    invocations,    \* the invocations handed to invoker.Invoke
    resultErr,      \* whether result.Error() is non-nil
    responses,      \* the calls of WriteError and WriteEntity
    run,            \* which run of the binder is under way
    returned,       \* the argument list the first run returned
    written         \* history: the assignments args[k] = v of each pass

vars == <<methodConfig, argsTypes, replyType, req, pc, args, todo, err, param,
          argsMap, maxKey, logs, invocations, resultErr, responses, run,
          returned, written>>

inputs == <<methodConfig, argsTypes, replyType, req>>

argsLength == Len(argsTypes)

\* argsTypes[k] and args[k] of the code: Go indexes from 0
TypeAt(k) == argsTypes[k + 1]

InRange(k) == ~(k < 0 \/ k >= argsLength)

Store(a, k, v) == [a EXCEPT ![k + 1] = v]

Log(l, pass, what, k) == l \cup {[pass |-> pass, what |-> what, k |-> k]}

----------------------------------------------------------------------------
(* RestServerRequest *)

PathParameter(name) == req.path[name]

QueryParameters(name) == req.query[name]

QueryParameter(name) ==
    IF req.query[name] = <<>> THEN <<>> ELSE Head(req.query[name])

HeaderParameter(name) == req.header[name]

\* ReadEntity(&ni): the error and what ni holds afterwards.
ReadEntity(ni) ==
    IF req.entity.err
    THEN [err |-> TRUE, ni |-> ni]
    ELSE [err |-> FALSE, ni |-> Value(ni.type, <<req.entity.doc>>)]

----------------------------------------------------------------------------
(* getArgsFromRequest: the typed convention *)

\* The state an assemble function works on: the shared args, its own err
\* and param variables, the log, and whether an index expression went out
\* of range (a Go run-time panic).
Frame == [args |-> args, err |-> err, param |-> param, logs |-> logs,
          panic |-> FALSE, written |-> written]

Panic(f) == [f EXCEPT !.panic = TRUE]

\* args[k] = v, recorded in the history of the pass
Assign(f, pass, k, v) ==
    [f EXCEPT !.args = Store(@, k, v),
              !.written = @ \cup {[pass |-> pass, k |-> k, val |-> v]}]

Indexable(k) == k + 1 \in DOMAIN argsTypes

\* The kind the path and query loops branch on: kind := t.Kind(), read
\* before t is replaced by t.Elem().
CoercionKind(t) == Kind(t)

\* Mutant of HeaderKind: the kind is read before the pointer is unwrapped.
HeaderKindNoUnwrap(t) == Kind(t)

\* The kind the header loop branches on: t.Kind() after t = t.Elem().
HeaderKind(t) == IF Kind(t) = "Ptr" THEN Kind(Elem(t)) ELSE Kind(t)

\* What the branches of a path or query loop leave in param and err.
\* A branch that does not assign err leaves the err of an earlier entry.
Coerce(f, kind, s) ==
    CASE kind = "String" ->
            [f EXCEPT !.param = StringValue(s)]
      [] kind = "Int" ->
            [f EXCEPT !.param = Value(T("int"), <<Atoi(s).num>>),
                      !.err = Atoi(s).err]
      [] kind = "Int32" ->
            [f EXCEPT !.param = IF ParseInt(s, 32).err = "nil"
                                THEN Value(T("int32"), <<ParseInt(s, 32).num>>)
                                ELSE @,
                      !.err = ParseInt(s, 32).err]
      [] kind = "Int64" ->
            [f EXCEPT !.param = Value(T("int64"), <<ParseInt(s, 64).num>>),
                      !.err = ParseInt(s, 64).err]

\* if err != nil { log; continue }; args[k] = param
StoreParam(f, pass, k) ==
    IF f.err # "nil"
    THEN [f EXCEPT !.logs = Log(@, pass, "parse", k)]
    ELSE Assign(f, pass, k, f.param)

\* One iteration of the loop of assembleArgsFromPathParams, on entry k.
PathEntry(f, k) ==
    IF ~InRange(k) THEN [f EXCEPT !.logs = Log(@, "path", "range", k)]
    ELSE IF ~Indexable(k) THEN Panic(f)
    ELSE LET kind == CoercionKind(TypeAt(k))
             v == methodConfig.PathParamsMap[k]
         IN  IF kind \in {"Int", "Int32", "Int64", "String"}
             THEN StoreParam(Coerce(f, kind, PathParameter(v)), "path", k)
             ELSE [f EXCEPT !.logs = Log(@, "path", "kind", k)]

\* One iteration of the loop of assembleArgsFromQueryParams, on entry k.
QueryEntry(f, k) ==
    IF ~InRange(k) THEN [f EXCEPT !.logs = Log(@, "query", "range", k)]
    ELSE IF ~Indexable(k) THEN Panic(f)
    ELSE LET kind == CoercionKind(TypeAt(k))
             v == methodConfig.QueryParamsMap[k]
         IN  IF kind = "Slice"
             THEN StoreParam([f EXCEPT !.param = Value(T("[]string"),
                                                       QueryParameters(v))],
                             "query", k)
             ELSE IF kind \in {"Int", "Int32", "Int64", "String"}
             THEN StoreParam(Coerce(f, kind, QueryParameter(v)), "query", k)
             ELSE [f EXCEPT !.logs = Log(@, "query", "kind", k)]

\* The value ReadEntity decodes into, by the unwrapped type of the slot.
BodyTarget(t) ==
    IF IsNamed(t, "[]interface {}")
    THEN Value(T("[]map[string]interface {}"), <<>>)
    ELSE IF IsNamed(t, "interface {}")
    THEN Value(T("map[string]interface {}"), <<>>)
    ELSE New(t)

\* Mutant of Body: the decode target is stored whether or not the decode
\* failed.
BodyStoresOnError(f) ==
    LET b == methodConfig.Body
    IN  IF ~(b >= 0 /\ b < argsLength) THEN f
        ELSE LET t == IF Kind(TypeAt(b)) = "Ptr" THEN Elem(TypeAt(b))
                      ELSE TypeAt(b)
                 r == ReadEntity(BodyTarget(t))
             IN  IF r.err
                 THEN Assign([f EXCEPT !.logs = Log(@, "body", "decode", b)],
                             "body", b, r.ni)
                 ELSE Assign(f, "body", b, r.ni)

\* methodConfig.Body >= 0 && methodConfig.Body < len(argsTypes)
BodyBound(b) == b >= 0 /\ b < argsLength

\* assembleArgsFromBody
Body(f) ==
    LET b == methodConfig.Body
    IN  IF ~BodyBound(b) THEN f
        ELSE IF ~Indexable(b) THEN Panic(f)
        ELSE LET t == IF Kind(TypeAt(b)) = "Ptr" THEN Elem(TypeAt(b))
                      ELSE TypeAt(b)
                 r == ReadEntity(BodyTarget(t))
             IN  IF r.err
                 THEN [f EXCEPT !.logs = Log(@, "body", "decode", b)]
                 ELSE Assign(f, "body", b, r.ni)

\* One iteration of the loop of assembleArgsFromHeaders, on entry k.
HeaderEntry(f, k) ==
    LET v == methodConfig.HeadersMap[k]
    IN  IF ~InRange(k) THEN [f EXCEPT !.logs = Log(@, "header", "range", k)]
        ELSE IF ~Indexable(k) THEN Panic(f)
        ELSE IF HeaderKind(TypeAt(k)) = "String"
        THEN Assign(f, "header", k, StringValue(HeaderParameter(v)))
        ELSE [f EXCEPT !.logs = Log(@, "header", "kind", k)]

\* Mutant of NextPass: the header pass is called before the body pass.
NextPassHeaderFirst(p) ==
    CASE p = "path" -> "query"
      [] p = "query" -> "header"
      [] p = "header" -> "body"
      [] p = "body" -> "return"

\* The order of the four assemble calls of getArgsFromRequest, and the
\* return.
NextPass(p) ==
    CASE p = "path" -> "query"
      [] p = "query" -> "body"
      [] p = "body" -> "header"
      [] p = "header" -> "return"

\* The keys a pass ranges over.
Keys(p) ==
    CASE p = "path" -> DOMAIN methodConfig.PathParamsMap
      [] p = "query" -> DOMAIN methodConfig.QueryParamsMap
      [] p = "header" -> DOMAIN methodConfig.HeadersMap
      [] OTHER -> {}

\* Entering a pass: its loop has all keys ahead, its variables are fresh.
Enter(p) ==
    /\ pc' = p
    /\ todo' = Keys(p)
    /\ err' = "nil"
    /\ param' = Nil

\* Mutant of ZeroArgs: the list is allocated and not filled with the zero
\* values of the declared types.
ZeroArgsNil == [i \in 1..argsLength |-> Nil]

\* args := make([]interface{}, argsLength), each slot the zero value
ZeroArgs == [i \in 1..argsLength |-> Zero(argsTypes[i])]

----------------------------------------------------------------------------
(* getArgsInterfaceFromRequest: the generic convention *)

Max(a, b) == IF a < b THEN b ELSE a

Put(m, k, v) == [j \in DOMAIN m \cup {k} |-> IF j = k THEN v ELSE m[j]]

\* argsMap[k] = req.PathParameter(v)
GenericPathValue(v) == StringValue(PathParameter(v))

\* Mutant of GenericQueryValue: the list of values is stored as it is.
GenericQueryValueList(v) == Value(T("[]string"), QueryParameters(v))

\* params[0] when there is exactly one value, params otherwise
GenericQueryValue(v) ==
    IF Len(QueryParameters(v)) = 1
    THEN StringValue(QueryParameters(v)[1])
    ELSE Value(T("[]string"), QueryParameters(v))

\* argsMap[k] = req.HeaderParameter(v)
GenericHeaderValue(v) == StringValue(HeaderParameter(v))

\* The order of the loops of getArgsInterfaceFromRequest; the body and the
\* final copy follow the header loop.
GenericNextPass(p) ==
    CASE p = "gpath" -> "gquery"
      [] p = "gquery" -> "gheader"
      [] p = "gheader" -> "gbody"

GenericKeys(p) ==
    CASE p = "gpath" -> DOMAIN methodConfig.PathParamsMap
      [] p = "gquery" -> DOMAIN methodConfig.QueryParamsMap
      [] p = "gheader" -> DOMAIN methodConfig.HeadersMap
      [] OTHER -> {}

\* m := make(map[string]interface{}); req.ReadEntity(&m)
GenericReadBody == ReadEntity(Value(T("map[string]interface {}"), <<>>))

\* argsMap after the body block
GenericBodyMap(m) ==
    IF methodConfig.Body >= 0 /\ ~GenericReadBody.err
    THEN Put(m, methodConfig.Body, GenericReadBody.ni)
    ELSE m

\* maxKey after the body block
GenericBodyMaxKey(mk) ==
    IF methodConfig.Body >= 0 THEN Max(mk, methodConfig.Body) ELSE mk

\* The guard of the final copy: if k >= 0 { args[k] = v }
Copied(k) == k >= 0

\* args := make([]interface{}, maxKey+1) and the copy of the entries of
\* argsMap the guard lets through.
GenericCopy(m, mk) ==
    [i \in 1..(mk + 1) |->
        IF (i - 1) \in DOMAIN m /\ Copied(i - 1) THEN m[i - 1] ELSE Nil]

\* args[k] = v with k outside the list is a run-time panic.
GenericCopyPanics(m, mk) ==
    \E k \in DOMAIN m : Copied(k) /\ (k < 0 \/ k > mk)

----------------------------------------------------------------------------
(* GetRouteFunc *)

\* (len(argsTypes) == 1 || len(argsTypes) == 2 && replyType == nil) &&
\*     argsTypes[0].String() == "[]interface {}"
IsGeneric ==
    /\ argsLength = 1 \/ (argsLength = 2 /\ replyType = "nil")
    /\ IsNamed(argsTypes[1], "[]interface {}")

StatusInternalServerError == 500

\* Mutant of AfterWriteError: the return is missing and WriteEntity follows.
AfterWriteErrorFallsThrough == "fallthrough"

\* Where the route function goes after WriteError: it returns.
AfterWriteError == "done"

----------------------------------------------------------------------------
(* Inputs *)

Idx == -1..MaxArgs

Types ==
    {T("string"), T("int"), T("int32"), T("int64"), T("[]string"),
     T("User"), T("interface {}"), T("[]interface {}"),
     PtrTo(T("string")), PtrTo(T("int32")), PtrTo(T("User"))}

Signatures == UNION {[1..n -> Types] : n \in 0..MaxArgs}

\* The name an index is mapped to.
NameOf(k) == ToString(k)

Names == {NameOf(k) : k \in Idx}

Entries(P, Q, H, B) ==
    Cardinality(P) + Cardinality(Q) + Cardinality(H)
        + (IF B >= 0 THEN 1 ELSE 0)

Config(P, Q, H, B) ==
    [MethodName |-> "GetUser",
     PathParamsMap |-> [k \in P |-> NameOf(k)],
     QueryParamsMap |-> [k \in Q |-> NameOf(k)],
     HeadersMap |-> [k \in H |-> NameOf(k)],
     Body |-> B]

Configs ==
    {Config(c[1], c[2], c[3], c[4]) :
        c \in {d \in (SUBSET Idx) \X (SUBSET Idx) \X (SUBSET Idx) \X Idx :
                  Entries(d[1], d[2], d[3], d[4]) <= MaxEntries}}

PathValues ==
    {<<"7">>, <<"a", "b", "c">>,
     <<"2", "1", "4", "7", "4", "8", "3", "6", "4", "8">>}

QueryValues ==
    {<<>>,
     << <<"2", "1", "4", "7", "4", "8", "3", "6", "4", "7">> >>,
     << <<"x">> >>,
     << <<"+", "0", "7">>, <<"x">> >>}

HeaderValues == {<<>>, <<"h">>}

Entities == {[err |-> TRUE, doc |-> <<>>], [err |-> FALSE, doc |-> <<"{", "}">>]}

\* The entries whose request value the chosen convention reads and uses.
Read(m, sig, rt) ==
    {m[k] : k \in {j \in DOMAIN m :
        \/ j >= 0 /\ j < Len(sig)
        \/ /\ Len(sig) = 1 \/ (Len(sig) = 2 /\ rt = "nil")
           /\ IsNamed(sig[1], "[]interface {}")}}

Answers(used, values, absent) ==
    {[n \in Names |-> IF n \in used THEN a[n] ELSE absent] :
        a \in [used -> values]}

Requests(c, sig, rt) ==
    {[path |-> p, query |-> q, header |-> h, entity |-> e] :
        p \in Answers(Read(c.PathParamsMap, sig, rt), PathValues, <<>>),
        q \in Answers(Read(c.QueryParamsMap, sig, rt), QueryValues, <<>>),
        h \in Answers(Read(c.HeadersMap, sig, rt), HeaderValues, <<>>),
        e \in IF c.Body >= 0 THEN Entities
              ELSE {[err |-> FALSE, doc |-> <<"{", "}">>]}}

EmptyMap == [j \in {} |-> Nil]

Init ==
    /\ argsTypes \in Signatures
    /\ replyType \in IF Len(argsTypes) = 2 /\ IsNamed(argsTypes[1], "[]interface {}")
                      THEN {"nil", "some"} ELSE {"some"}
    /\ methodConfig \in Configs
    /\ req \in Requests(methodConfig, argsTypes, replyType)
    /\ pc = "route"
    /\ args = <<>>
    /\ todo = {}
    /\ err = "nil"
    /\ param = Nil
    /\ argsMap = EmptyMap
    /\ maxKey = 0
    /\ logs = {}
    /\ invocations = <<>>
    /\ resultErr = FALSE
    /\ responses = <<>>
    /\ run = 1
    /\ returned = <<>>
    /\ written = {}

----------------------------------------------------------------------------
(* Actions *)

locals == <<err, param, todo>>
generic == <<argsMap, maxKey>>
handler == <<invocations, resultErr, responses>>
twice == <<run, returned>>
typed == <<written>>

\* GetRouteFunc up to the call of getArgsInterfaceFromRequest, whose loops
\* start with an empty argsMap and maxKey 0.
RouteGeneric ==
    /\ pc = "route"
    /\ IsGeneric
    /\ argsMap' = EmptyMap
    /\ maxKey' = 0
    /\ pc' = "gpath"
    /\ todo' = GenericKeys("gpath")
    /\ UNCHANGED <<typed, inputs, args, err, param, logs, handler, twice>>

\* GetRouteFunc up to the call of getArgsFromRequest, which allocates the
\* zero-valued list and calls the first assemble function.
RouteTyped ==
    /\ pc = "route"
    /\ ~IsGeneric
    /\ args' = ZeroArgs
    /\ Enter("path")
    /\ UNCHANGED <<typed, inputs, generic, logs, handler, twice>>

\* One iteration of a range loop of the typed convention.
Iteration(f, k) ==
    /\ args' = f.args
    /\ err' = f.err
    /\ param' = f.param
    /\ logs' = f.logs
    /\ written' = f.written
    /\ pc' = IF f.panic THEN "panic" ELSE pc
    /\ todo' = todo \ {k}
    /\ UNCHANGED <<inputs, generic, handler, twice>>

PathParams ==
    /\ pc = "path"
    /\ \E k \in todo : Iteration(PathEntry(Frame, k), k)

QueryParams ==
    /\ pc = "query"
    /\ \E k \in todo : Iteration(QueryEntry(Frame, k), k)

Headers ==
    /\ pc = "header"
    /\ \E k \in todo : Iteration(HeaderEntry(Frame, k), k)

\* A range loop has visited every key: the assemble function returns and
\* getArgsFromRequest goes on.
LoopDone ==
    /\ pc \in {"path", "query", "header"}
    /\ todo = {}
    /\ Enter(NextPass(pc))
    /\ UNCHANGED <<typed, inputs, args, generic, logs, handler, twice>>

BodyEntity ==
    /\ pc = "body"
    /\ args' = Body(Frame).args
    /\ logs' = Body(Frame).logs
    /\ written' = Body(Frame).written
    /\ IF Body(Frame).panic
       THEN pc' = "panic" /\ UNCHANGED locals
       ELSE Enter(NextPass("body"))
    /\ UNCHANGED <<inputs, generic, handler, twice>>

\* One iteration of a range loop of the generic convention.
GenericIteration(k, v) ==
    /\ maxKey' = Max(maxKey, k)
    /\ argsMap' = Put(argsMap, k, v)
    /\ todo' = todo \ {k}
    /\ UNCHANGED <<typed, inputs, pc, args, err, param, logs, handler, twice>>

GenericPathParams ==
    /\ pc = "gpath"
    /\ \E k \in todo :
          GenericIteration(k, GenericPathValue(methodConfig.PathParamsMap[k]))

GenericQueryParams ==
    /\ pc = "gquery"
    /\ \E k \in todo :
          GenericIteration(k, GenericQueryValue(methodConfig.QueryParamsMap[k]))

GenericHeaders ==
    /\ pc = "gheader"
    /\ \E k \in todo :
          GenericIteration(k, GenericHeaderValue(methodConfig.HeadersMap[k]))

GenericLoopDone ==
    /\ pc \in {"gpath", "gquery", "gheader"}
    /\ todo = {}
    /\ pc' = GenericNextPass(pc)
    /\ todo' = GenericKeys(GenericNextPass(pc))
    /\ UNCHANGED <<typed, inputs, args, err, param, generic, logs, handler, twice>>

\* The body block, the allocation of the list and the final copy.
GenericBody ==
    /\ pc = "gbody"
    /\ argsMap' = GenericBodyMap(argsMap)
    /\ maxKey' = GenericBodyMaxKey(maxKey)
    /\ logs' = IF methodConfig.Body >= 0 /\ GenericReadBody.err
               THEN Log(logs, "gbody", "decode", methodConfig.Body)
               ELSE logs
    /\ args' = GenericCopy(argsMap', maxKey')
    /\ pc' = IF GenericCopyPanics(argsMap', maxKey') THEN "panic" ELSE "return"
    /\ UNCHANGED <<typed, inputs, locals, handler, twice>>

\* invoker.Invoke(ctx, NewRPCInvocation(MethodName, args, make(map)))
Invoke ==
    /\ pc = "return"
    /\ invocations' = Append(invocations,
                             [methodName |-> methodConfig.MethodName,
                              args |-> args,
                              attachments |-> EmptyMap])
    /\ resultErr' \in BOOLEAN
    /\ pc' = "respond"
    /\ UNCHANGED <<typed, inputs, args, locals, generic, logs, responses, twice>>

\* A call of resp.WriteError or resp.WriteEntity; a failed write is logged.
Write(call, status, failed) ==
    /\ responses' = Append(responses,
                           [call |-> call, status |-> status,
                            error |-> resultErr, failed |-> failed])
    /\ logs' = IF failed THEN Log(logs, call, "write", 0) ELSE logs

WriteError ==
    /\ pc = "respond"
    /\ resultErr
    /\ \E failed \in BOOLEAN : Write("WriteError", StatusInternalServerError, failed)
    /\ pc' = AfterWriteError
    /\ UNCHANGED <<typed, inputs, args, locals, generic, invocations, resultErr, twice>>

WriteEntity ==
    /\ pc = IF resultErr THEN "fallthrough" ELSE "respond"
    /\ \E failed \in BOOLEAN : Write("WriteEntity", 0, failed)
    /\ pc' = "done"
    /\ UNCHANGED <<typed, inputs, args, locals, generic, invocations, resultErr, twice>>

Binder ==
    \/ RouteGeneric
    \/ RouteTyped
    \/ PathParams
    \/ QueryParams
    \/ BodyEntity
    \/ Headers
    \/ LoopDone
    \/ GenericPathParams
    \/ GenericQueryParams
    \/ GenericHeaders
    \/ GenericLoopDone
    \/ GenericBody

Next ==
    \/ Binder
    \/ Invoke
    \/ WriteError
    \/ WriteEntity

Spec == Init /\ [][Next]_vars

\* The binder called a second time on the same MethodConfig, signature and
\* request.
Rebind ==
    /\ pc = "return"
    /\ run = 1
    /\ run' = 2
    /\ returned' = args
    /\ pc' = "route"
    /\ args' = <<>>
    /\ UNCHANGED <<typed, inputs, locals, generic, logs, handler>>

NextTwice ==
    \/ Binder
    \/ Rebind

SpecTwice == Init /\ [][NextTwice]_vars

----------------------------------------------------------------------------
(* Vocabulary of the properties *)

Typed == ~IsGeneric

\* The declared type with one pointer level removed.
Unwrapped(t) == BaseKind(t.base)

\* A pass of the typed convention has visited all its entries.
PassOver(p) == Typed /\ pc = p /\ todo = {}

\* getArgsFromRequest has returned.
TypedReturned == Typed /\ pc \in {"return", "respond", "fallthrough", "done"}

GenericReturned == IsGeneric /\ pc \in {"return", "respond", "fallthrough", "done"}

Slot(k) == args[k + 1]

PathParam(k) == req.path[methodConfig.PathParamsMap[k]]

QueryParam(k) ==
    IF req.query[methodConfig.QueryParamsMap[k]] = <<>> THEN <<>>
    ELSE req.query[methodConfig.QueryParamsMap[k]][1]

HeaderParam(k) == req.header[methodConfig.HeadersMap[k]]

BitSize(kind) == IF kind = "Int32" THEN 32 ELSE 64

IntType(kind) ==
    CASE kind = "Int" -> T("int") [] kind = "Int32" -> T("int32")
      [] kind = "Int64" -> T("int64")

\* The request string s is valid for the kind.
ValidFor(kind, s) ==
    \/ kind = "String"
    \/ kind \in {"Int", "Int32", "Int64"} /\ ParseInt(s, BitSize(kind)).err = "nil"

\* The value the string s coerces to for the kind.
Coerced(kind, s) ==
    IF kind = "String" THEN StringValue(s)
    ELSE Value(IntType(kind), <<ParseInt(s, BitSize(kind)).num>>)

\* C1 for one mapping: every in-range entry of an accepted declared kind
\* with a valid request value has its coerced value in the slot.
PathIsolated ==
    \A k \in DOMAIN methodConfig.PathParamsMap :
        (InRange(k) /\ Kind(TypeAt(k)) \in {"String", "Int", "Int32", "Int64"}
                    /\ ValidFor(Kind(TypeAt(k)), PathParam(k)))
            => Slot(k) = Coerced(Kind(TypeAt(k)), PathParam(k))

QueryIsolated ==
    \A k \in DOMAIN methodConfig.QueryParamsMap :
        /\ (InRange(k) /\ Kind(TypeAt(k)) \in {"String", "Int", "Int32", "Int64"}
                       /\ ValidFor(Kind(TypeAt(k)), QueryParam(k)))
              => Slot(k) = Coerced(Kind(TypeAt(k)), QueryParam(k))
        /\ (InRange(k) /\ Kind(TypeAt(k)) = "Slice")
              => Slot(k) = Value(T("[]string"),
                                 req.query[methodConfig.QueryParamsMap[k]])

\* C1 (as claimed): best-effort isolation.  When the path loop, and when the
\* query loop, of the typed convention has visited all its entries, every
\* in-range entry of an accepted kind whose request value is valid holds its
\* coerced value, whatever other entries failed and whatever the order.
C1_Isolation ==
    /\ PassOver("path") => PathIsolated
    /\ PassOver("query") => QueryIsolated

\* C2 (as claimed): determinism.  The second run of the binder on the same
\* MethodConfig, signature and request returns the list the first returned.
C2_Deterministic ==
    (pc = "return" /\ run = 2) => args = returned

\* C8 (as claimed): pointer unwrapping.  After the path loop, and after the
\* query loop, an in-range entry declared pointer-to-String or
\* pointer-to-Int32 with a valid request value holds the value a non-pointer
\* slot of that kind would hold.
C8_PointerUnwrapped ==
    /\ PassOver("path") =>
          \A k \in DOMAIN methodConfig.PathParamsMap :
              (InRange(k) /\ TypeAt(k).ptr
                          /\ Unwrapped(TypeAt(k)) \in {"String", "Int32"}
                          /\ ValidFor(Unwrapped(TypeAt(k)), PathParam(k)))
                  => Slot(k) = Coerced(Unwrapped(TypeAt(k)), PathParam(k))
    /\ PassOver("query") =>
          \A k \in DOMAIN methodConfig.QueryParamsMap :
              (InRange(k) /\ TypeAt(k).ptr
                          /\ Unwrapped(TypeAt(k)) \in {"String", "Int32"}
                          /\ ValidFor(Unwrapped(TypeAt(k)), QueryParam(k)))
                  => Slot(k) = Coerced(Unwrapped(TypeAt(k)), QueryParam(k))

\* C3: dispatch.  Binding never aborts the route function; the invoker is
\* invoked exactly once, with the bound argument list and an empty attachment
\* map; afterwards exactly one response write is attempted, WriteError with
\* status 500 when the result carries an error and WriteEntity otherwise,
\* whether or not the write fails; the function stops only when done.
C3_InvokedOnceWrittenOnce ==
    /\ pc # "panic"
    /\ Len(invocations) = IF pc \in {"respond", "fallthrough", "done"} THEN 1 ELSE 0
    /\ Len(responses) = IF pc = "done" THEN 1 ELSE 0
    /\ pc \in {"respond", "done"} =>
          invocations[1] = [methodName |-> methodConfig.MethodName,
                            args |-> args,
                            attachments |-> [j \in {} |-> Nil]]
    /\ pc = "done" =>
          /\ responses[1].call = IF resultErr THEN "WriteError" ELSE "WriteEntity"
          /\ resultErr => responses[1].status = 500 /\ responses[1].error
    /\ pc # "done" => ENABLED Next

\* C3 witness: a request whose binding logged a parse failure and a body
\* decode failure was dispatched, the result carried an error, and the one
\* WriteError failed.
C3_Witness ==
    /\ pc = "done"
    /\ \E l \in logs : l.what = "parse"
    /\ \E l \in logs : l.what = "decode"
    /\ resultErr
    /\ Len(responses) = 1 /\ responses[1].failed

OutOfRange(k) == k < 0 \/ k >= Len(argsTypes)

Reported(pass, k) == [pass |-> pass, what |-> "range", k |-> k] \in logs

\* C4 (as claimed): out-of-range indices.  No index expression of the typed
\* convention goes out of range, the list keeps the declared length, and
\* once getArgsFromRequest has returned every out-of-range index of the path,
\* query and header mappings, and a body index >= the argument count, has
\* been reported to the logger.
C4_OutOfRangeReported ==
    /\ Typed => pc # "panic"
    /\ TypedReturned =>
          /\ Len(args) = Len(argsTypes)
          /\ \A k \in DOMAIN methodConfig.PathParamsMap :
                OutOfRange(k) => Reported("path", k)
          /\ \A k \in DOMAIN methodConfig.QueryParamsMap :
                OutOfRange(k) => Reported("query", k)
          /\ \A k \in DOMAIN methodConfig.HeadersMap :
                OutOfRange(k) => Reported("header", k)
          /\ methodConfig.Body >= Len(argsTypes) =>
                Reported("body", methodConfig.Body)

PassOrder == <<"path", "query", "body", "header">>

WrittenBy(i, k) == {w \in written : w.pass = PassOrder[i] /\ w.k = k}

Writers(k) == {i \in 1..4 : WrittenBy(i, k) # {}}

LastWriter(k) == CHOOSE i \in Writers(k) : \A j \in Writers(k) : j <= i

HeaderWrites(k) ==
    k \in DOMAIN methodConfig.HeadersMap /\ Unwrapped(TypeAt(k)) = "String"

BodyWrites(k) == methodConfig.Body = k /\ ~req.entity.err

\* The only entry of the query mapping is k and the query pass accepts it.
QueryAloneWrites(k) ==
    /\ DOMAIN methodConfig.QueryParamsMap = {k}
    /\ \/ Kind(TypeAt(k)) = "Slice"
       \/ /\ Kind(TypeAt(k)) \in {"String", "Int", "Int32", "Int64"}
          /\ ValidFor(Kind(TypeAt(k)), QueryParam(k))

QueryValue(k) ==
    IF Kind(TypeAt(k)) = "Slice"
    THEN Value(T("[]string"), req.query[methodConfig.QueryParamsMap[k]])
    ELSE Coerced(Kind(TypeAt(k)), QueryParam(k))

\* The value the body pass stores in a slot declared t.
Decoded(t) ==
    Value(IF t.base = "[]interface {}" /\ ~t.ptr
            THEN T("[]map[string]interface {}")
          ELSE IF t.base = "interface {}" /\ ~t.ptr
            THEN T("map[string]interface {}")
          ELSE [ptr |-> TRUE, base |-> t.base],
          <<req.entity.doc>>)

\* C5: pass order.  When getArgsFromRequest has returned, each pass has
\* written a slot at most once, a slot written by several passes holds the
\* value of the one latest in the order path, query, body, header, and a slot
\* no pass wrote holds its zero value.  In terms of the request: a slot the
\* header pass accepts holds the header value whatever the body, query and
\* path passes wrote; a slot the body decoded into and the header pass does
\* not accept holds the decoded body whatever the query and path passes
\* wrote; a slot the query pass accepts and neither the body nor the header
\* pass writes holds the query value whatever the path pass wrote.
C5_LaterPassWins ==
    TypedReturned =>
        \A k \in 0..(Len(argsTypes) - 1) :
            /\ \A i \in 1..4 : Cardinality(WrittenBy(i, k)) <= 1
            /\ Writers(k) = {} => Slot(k) = Zero(TypeAt(k))
            /\ Writers(k) # {} =>
                  \E w \in WrittenBy(LastWriter(k), k) : Slot(k) = w.val
            /\ HeaderWrites(k) => Slot(k) = StringValue(HeaderParam(k))
            /\ (BodyWrites(k) /\ ~HeaderWrites(k)) => Slot(k) = Decoded(TypeAt(k))
            /\ (QueryAloneWrites(k) /\ ~BodyWrites(k) /\ ~HeaderWrites(k))
                  => Slot(k) = QueryValue(k)

\* C5 witness: the body pass and the header pass both wrote slot 0.
C5_Witness ==
    /\ TypedReturned
    /\ {3, 4} \subseteq Writers(0)

Refs ==
    DOMAIN methodConfig.PathParamsMap \cup DOMAIN methodConfig.QueryParamsMap
        \cup DOMAIN methodConfig.HeadersMap
        \cup (IF methodConfig.Body >= 0 THEN {methodConfig.Body} ELSE {})

\* max(0, M), M the largest referenced index
MaxRef ==
    IF \A r \in Refs : r < 0 THEN 0
    ELSE CHOOSE m \in Refs : \A r \in Refs : r <= m

QueryRaw(k) == req.query[methodConfig.QueryParamsMap[k]]

\* The value of the last of the sources path, query, header that references
\* position i, the absent value when none does.
MappedValue(i) ==
    IF i \in DOMAIN methodConfig.HeadersMap THEN StringValue(HeaderParam(i))
    ELSE IF i \in DOMAIN methodConfig.QueryParamsMap
    THEN IF Len(QueryRaw(i)) = 1 THEN StringValue(QueryRaw(i)[1])
         ELSE Value(T("[]string"), QueryRaw(i))
    ELSE IF i \in DOMAIN methodConfig.PathParamsMap
    THEN StringValue(PathParam(i))
    ELSE Nil

DecodedMap == Value(T("map[string]interface {}"), <<req.entity.doc>>)

\* C6 (as claimed): the generic convention returns a list of length
\* max(0, M) + 1 in which the position of the body index holds the decoded
\* body map and every other position the value of the last of path, query,
\* header that references it, the absent value when none does.
C6_GenericAsClaimed ==
    GenericReturned =>
        /\ Len(args) = MaxRef + 1
        /\ \A i \in 0..MaxRef :
              Slot(i) = IF methodConfig.Body = i THEN DecodedMap
                        ELSE MappedValue(i)

\* C6 (amended): as claimed, except that the body index holds the decoded
\* body map only when the body decode succeeded; when it failed the body
\* index still counts for the length and its position holds what path, query
\* and header left there, the absent value when they reference it not.
\* Nothing in the convention indexes out of range.
C6_Generic ==
    /\ IsGeneric => pc # "panic"
    /\ GenericReturned =>
          /\ Len(args) = MaxRef + 1
          /\ \A i \in 0..MaxRef :
                Slot(i) = IF methodConfig.Body = i /\ ~req.entity.err
                          THEN DecodedMap
                          ELSE MappedValue(i)

\* C6 witness: the example of the specification, config {path:{0}, query:{2}}
\* with path value "7" and the single query value "x", returns
\* ["7", absent, "x"]; a negative index is mapped too.
C6_Witness ==
    /\ GenericReturned
    /\ DOMAIN methodConfig.PathParamsMap = {0}
    /\ DOMAIN methodConfig.QueryParamsMap = {2}
    /\ args = <<StringValue(<<"7">>), Nil, StringValue(<<"x">>)>>

\* C6 witness of the amended case: the body decode failed on a body index
\* that is the largest referenced index.
C6_WitnessDecodeFailed ==
    /\ GenericReturned
    /\ req.entity.err
    /\ methodConfig.Body = MaxRef
    /\ Len(args) = methodConfig.Body + 1

\* C7: the header pass.  A step of the header loop of the typed convention
\* changes no slot whose declared kind, one pointer level removed, is not
\* String; when it visits an in-range entry of a slot of that kind String,
\* the slot receives the header value of the request.
C7_HeaderOnlyString ==
    [][(Typed /\ pc = "header") =>
          \A i \in 1..Len(argsTypes) :
              /\ Unwrapped(argsTypes[i]) # "String" => args'[i] = args[i]
              /\ ((i - 1) \in todo \ todo' /\ Unwrapped(argsTypes[i]) = "String")
                    => args'[i] = StringValue(HeaderParam(i - 1))]_vars

\* C7 witness: the header loop has visited a present header mapped to an
\* Int32 slot, which kept its zero value, and a header mapped to a
\* pointer-to-String slot, which holds the header value.
C7_Witness ==
    /\ PassOver("header")
    /\ DOMAIN methodConfig.HeadersMap = {0, 1}
    /\ argsTypes = <<T("int32"), PtrTo(T("string"))>>
    /\ HeaderParam(0) = <<"h">>
    /\ args = <<Zero(T("int32")), StringValue(HeaderParam(1))>>

BodyIsPointerToStruct ==
    /\ Typed
    /\ methodConfig.Body >= 0 /\ methodConfig.Body < Len(argsTypes)
    /\ TypeAt(methodConfig.Body).ptr
    /\ Unwrapped(TypeAt(methodConfig.Body)) = "Struct"

AfterBody == pc \in {"header", "return", "respond", "fallthrough", "done"}

HeadersBound ==
    \A k \in DOMAIN methodConfig.HeadersMap :
        (~OutOfRange(k) /\ Unwrapped(TypeAt(k)) = "String")
            => Slot(k) = StringValue(HeaderParam(k))

\* C9 (as claimed): a body-mapped in-range pointer-to-struct slot holds the
\* populated instance when the decode succeeds and a fresh zero instance of
\* the struct when it fails; the failure is logged and the header pass
\* still binds its slots.
C9_BodyAsClaimed ==
    BodyIsPointerToStruct =>
        /\ AfterBody =>
              Slot(methodConfig.Body) =
                  IF req.entity.err
                  THEN Value(TypeAt(methodConfig.Body), << <<>> >>)
                  ELSE Value(TypeAt(methodConfig.Body), <<req.entity.doc>>)
        /\ (AfterBody /\ req.entity.err) =>
              [pass |-> "body", what |-> "decode", k |-> methodConfig.Body] \in logs
        /\ TypedReturned => HeadersBound

\* C9 (amended): as claimed, except that after a failed decode the slot
\* holds the zero value of its declared type, the nil pointer: the fresh
\* zero instance allocated for the decode is not stored.
C9_BodyPointer ==
    BodyIsPointerToStruct =>
        /\ AfterBody =>
              Slot(methodConfig.Body) =
                  IF req.entity.err
                  THEN Value(TypeAt(methodConfig.Body), <<>>)
                  ELSE Value(TypeAt(methodConfig.Body), <<req.entity.doc>>)
        /\ (AfterBody /\ req.entity.err) =>
              [pass |-> "body", what |-> "decode", k |-> methodConfig.Body] \in logs
        /\ TypedReturned => HeadersBound

\* C9 witness: the body decode into a pointer-to-User slot failed and the
\* header pass, run afterwards, bound a header to a String slot.
C9_Witness ==
    /\ BodyIsPointerToStruct
    /\ TypedReturned
    /\ req.entity.err
    /\ \E k \in DOMAIN methodConfig.HeadersMap :
          /\ ~OutOfRange(k)
          /\ HeaderParam(k) = <<"h">>
          /\ Slot(k) = StringValue(<<"h">>)

InTyped ==
    Typed /\ pc \in {"path", "query", "body", "header", "return", "respond",
                      "fallthrough", "done"}

\* The indices of the mapping of a pass.
PassKeys(p) ==
    CASE p = "path" -> DOMAIN methodConfig.PathParamsMap
      [] p = "query" -> DOMAIN methodConfig.QueryParamsMap
      [] p = "body" -> {methodConfig.Body}
      [] p = "header" -> DOMAIN methodConfig.HeadersMap
      [] OTHER -> {}

\* C10: shape and frame.  From its allocation on, the list of the typed
\* convention has exactly the declared parameter count as its length and
\* every slot referenced by no mapping and not the body index holds the zero
\* value of its declared type; a step of a pass changes no slot outside the
\* indices of the mapping of that pass.
C10_ShapeAndFrame ==
    /\ [](InTyped =>
            /\ Len(args) = Len(argsTypes)
            /\ \A k \in 0..(Len(argsTypes) - 1) :
                  k \notin Refs => Slot(k) = Zero(TypeAt(k)))
    /\ [][InTyped =>
            \A i \in 1..Len(argsTypes) :
                args'[i] # args[i] => (i - 1) \in PassKeys(pc)]_vars

\* C10 witness: a two-parameter list was returned with slot 0 bound, slot 1
\* referenced by nothing and at its zero value, and an out-of-range index
\* in a mapping.
C10_Witness ==
    /\ TypedReturned
    /\ Len(args) = 2
    /\ Writers(0) # {}
    /\ 1 \notin Refs
    /\ args[2] = Zero(argsTypes[2])
    /\ \E r \in Refs : OutOfRange(r)

====
